---- MODULE Spec2Model ----
(***************************************************************************)
(* kubemerge: merge of kubeconfig documents.                               *)
(*                                                                         *)
(* The run modelled is main (src/src/main.rs:163-171): merge_kubeconfigs   *)
(* reads, parses and folds the files in order, the merged KubeConfig is    *)
(* validated (validate_merged_config in main.rs, validate_config in        *)
(* merge.rs: the same code, called right after the merged value is built), *)
(* and the result is serialized and written.  Every file found is          *)
(* readable.                                                               *)
(*                                                                         *)
(* Option<T> is a sequence of length at most one: None is <<>>, Some(x) is *)
(* <<x>>.  A HashMap is a set of <<key, value>> pairs with unique keys.    *)
(***************************************************************************)
EXTENDS Integers, Sequences, FiniteSets, TLC

\* Bounds of the model.
\* MaxDocs: the files of a run.  MaxWeight: the size of a run's input, the
\* sum over its files of the items (records, current-context, preference
\* pairs, omitted keys) each is written with, a file counting at least 1.
MaxDocs == 2
MaxWeight == 3

None == <<>>
Some(x) == <<x>>
IsSome(o) == o # <<>>
Unwrap(o) == o[1]
UnwrapOrDefault(o) == IF o = <<>> THEN <<>> ELSE o[1]

Range(s) == {s[i] : i \in 1..Len(s)}

---------------------------------------------------------------------------
\* HashMap<String, Value>

EmptyMap == {}
MapKeys(m) == {p[1] : p \in m}
MapGet(m, k) == (CHOOSE p \in m : p[1] = k)[2]
\* HashMap::insert: the value of an existing key is replaced.
MapInsert(m, k, v) == {p \in m : p[1] # k} \cup {<<k, v>>}

---------------------------------------------------------------------------
\* The document model (config.rs).  Raw records are what the YAML text holds:
\* a required field of a raw record is an Option, None when the text omits it.

Names == {"a", "b"}
Variants == {1, 2}

\* Cluster: server is required, everything else optional; `other` is the
\* flattened catch-all of unrecognized fields.
RawCluster(v) ==
  [certificate_authority_data |-> IF v = 1 THEN Some("Q0E=") ELSE None,
   certificate_authority |-> IF v = 2 THEN Some("/ca.crt") ELSE None,
   server |-> IF v = 0 THEN None ELSE Some(IF v = 1 THEN "https://one" ELSE "https://two"),
   insecure_skip_tls_verify |-> IF v = 2 THEN Some(TRUE) ELSE None,
   other |-> IF v = 2 THEN {<<"proxy-url", "p2">>, <<"extensions", "e2">>}
             ELSE EmptyMap]

\* Context: cluster and user are required references by name.
RawContext(v) ==
  [cluster |-> IF v = 1 THEN "a" ELSE "b",
   user |-> IF v = 1 THEN "a" ELSE "b",
   namespace |-> IF v = 2 THEN Some("ns2") ELSE None,
   other |-> IF v = 2 THEN {<<"extensions", "e2">>} ELSE EmptyMap]

\* User: no field is required.
RawUser(v) ==
  [client_certificate_data |-> None,
   client_key_data |-> None,
   client_certificate |-> IF v = 2 THEN Some("/u.crt") ELSE None,
   client_key |-> IF v = 2 THEN Some("/u.key") ELSE None,
   token |-> IF v = 1 THEN Some("t1") ELSE None,
   username |-> None,
   password |-> None,
   other |-> IF v = 2 THEN {<<"exec", "x2">>} ELSE EmptyMap]

NamedCluster(n, v) == [name |-> n, cluster |-> RawCluster(v)]
NamedContext(n, v) == [name |-> n, context |-> RawContext(v)]
NamedUser(n, v) == [name |-> n, user |-> RawUser(v)]

TopKeys == {"apiVersion", "kind", "clusters", "contexts", "users",
            "current-context", "preferences"}

\* A file's content: blank text, text that is not a YAML mapping, or a YAML
\* mapping with the top-level keys `keys`; the value of an absent key is the
\* empty value, so that equal texts are equal records.
BlankFile ==
  [text |-> "blank", keys |-> {}, clusters |-> <<>>, contexts |-> <<>>,
   users |-> <<>>, cc |-> "", prefs |-> EmptyMap]
MalformedFile ==
  [text |-> "malformed", keys |-> {}, clusters |-> <<>>, contexts |-> <<>>,
   users |-> <<>>, cc |-> "", prefs |-> EmptyMap]
Yaml(keys, cl, cx, us, cc, pf) ==
  [text |-> "yaml", keys |-> keys,
   clusters |-> IF "clusters" \in keys THEN cl ELSE <<>>,
   contexts |-> IF "contexts" \in keys THEN cx ELSE <<>>,
   users |-> IF "users" \in keys THEN us ELSE <<>>,
   cc |-> IF "current-context" \in keys THEN cc ELSE "",
   prefs |-> IF "preferences" \in keys THEN pf ELSE EmptyMap]

---------------------------------------------------------------------------
\* serde_yml::from_str::<KubeConfig> (merge.rs:26-27 on config.rs:77-92).
\* The derive makes every field that is not an Option required: apiVersion,
\* kind, current-context and preferences at the top level, server in a cluster.

RequiredKeys == {"apiVersion", "kind", "current-context", "preferences"}

ParseNamedCluster(r) ==
  [name |-> r.name, cluster |-> [r.cluster EXCEPT !.server = Unwrap(r.cluster.server)]]

RecordsComplete(doc) ==
  \A i \in 1..Len(doc.clusters) : IsSome(doc.clusters[i].cluster.server)

\* The KubeConfig a YAML mapping deserializes to; a missing collection is None.
Deserialized(doc) ==
  [clusters |-> IF "clusters" \in doc.keys
                THEN Some([i \in 1..Len(doc.clusters) |-> ParseNamedCluster(doc.clusters[i])])
                ELSE None,
   contexts |-> IF "contexts" \in doc.keys THEN Some(doc.contexts) ELSE None,
   users |-> IF "users" \in doc.keys THEN Some(doc.users) ELSE None,
   current_context |-> doc.cc,
   preferences |-> doc.prefs]

\* from_str that never fails: a document that does not deserialize counts
\* as an empty one.
from_str_lenient(doc) ==
  IF doc.text = "yaml" /\ RequiredKeys \subseteq doc.keys /\ RecordsComplete(doc)
  THEN Some(Deserialized(doc))
  ELSE Some([clusters |-> None, contexts |-> None, users |-> None,
             current_context |-> "", preferences |-> EmptyMap])

\* Result<KubeConfig, _> as an Option: None is the parse error.
from_str(doc) ==
  IF doc.text # "yaml" THEN None
  ELSE IF ~(RequiredKeys \subseteq doc.keys) THEN None
  ELSE IF ~RecordsComplete(doc) THEN None
  ELSE Some(Deserialized(doc))

\* No file counts as blank.
IsNeverBlank(doc) == FALSE

\* content.trim().is_empty() (merge.rs:21)
IsBlank(doc) == doc.text = "blank"

---------------------------------------------------------------------------
\* merge_config_items (merge.rs:84-129): the same loop for each category.

HasName(acc, n) == \E i \in 1..Len(acc) : acc[i].name = n

\* A later record of a name replaces the one held.
PushOrReplace(st, item) ==
  IF HasName(st.acc, item.name)
  THEN [acc |-> [i \in 1..Len(st.acc) |->
                   IF st.acc[i].name = item.name THEN item ELSE st.acc[i]],
        added |-> st.added]
  ELSE [acc |-> Append(st.acc, item), added |-> st.added + 1]

\* The duplicate test compares whole records instead of names.
PushIfRecordAbsent(st, item) ==
  IF \E i \in 1..Len(st.acc) : st.acc[i] = item
  THEN st
  ELSE [acc |-> Append(st.acc, item), added |-> st.added + 1]

\* A new record is put in front of the accumulator instead of at its end.
PushFrontIfAbsent(st, item) ==
  IF ~HasName(st.acc, item.name)
  THEN [acc |-> <<item>> \o st.acc, added |-> st.added + 1]
  ELSE st

\* One iteration: push the record unless its name is already held.
PushIfAbsent(st, item) ==
  IF ~HasName(st.acc, item.name)
  THEN [acc |-> Append(st.acc, item), added |-> st.added + 1]
  ELSE st

RECURSIVE MergeNamed(_, _)
MergeNamed(items, st) ==
  IF items = <<>> THEN st
  ELSE MergeNamed(Tail(items), PushIfAbsent(st, Head(items)))

\* The three loops in turn; added_items counts the pushes of all of them.
merge_config_items(cfg, clusters, contexts, users) ==
  LET c == MergeNamed(UnwrapOrDefault(cfg.clusters), [acc |-> clusters, added |-> 0])
      x == MergeNamed(UnwrapOrDefault(cfg.contexts), [acc |-> contexts, added |-> c.added])
      u == MergeNamed(UnwrapOrDefault(cfg.users), [acc |-> users, added |-> x.added])
  IN [clusters |-> c.acc, contexts |-> x.acc, users |-> u.acc, added |-> u.added]

---------------------------------------------------------------------------
\* The rest of the loop body of merge_kubeconfigs (merge.rs:36-50).

\* The last non-empty current-context is kept.
LastCurrentContext(cur, new) == IF new # "" THEN new ELSE cur

\* merge.rs:36-39
UseCurrentContext(cur, new) == IF cur = "" /\ new # "" THEN new ELSE cur

\* A key already present keeps its value.
KeepPreferences(prefs, new) ==
  prefs \cup {p \in new : p[1] \notin MapKeys(prefs)}

\* merge.rs:41-43: insert every pair of the document; its keys are distinct,
\* so the order of the iteration does not show.
MergePreferences(prefs, new) ==
  {p \in prefs : p[1] \notin MapKeys(new)} \cup new

\* Every parsed file counts as processed.
CountEveryFile(processed, added) == processed + 1

\* merge.rs:45-50
CountProcessed(processed, added) ==
  IF added > 0 THEN processed + 1 ELSE processed

\* merge.rs:58-78
BuildMerged(clusters, contexts, users, cc, prefs) ==
  [api_version |-> "v1", kind |-> "Config",
   clusters |-> IF clusters = <<>> THEN None ELSE Some(clusters),
   contexts |-> IF contexts = <<>> THEN None ELSE Some(contexts),
   users |-> IF users = <<>> THEN None ELSE Some(users),
   current_context |-> cc,
   preferences |-> prefs]

---------------------------------------------------------------------------
\* validate_config (merge.rs:131-177), validate_merged_config (main.rs:339-383)

ContextNames(config) ==
  {UnwrapOrDefault(config.contexts)[i].name : i \in 1..Len(UnwrapOrDefault(config.contexts))}
ClusterNames(config) ==
  {UnwrapOrDefault(config.clusters)[i].name : i \in 1..Len(UnwrapOrDefault(config.clusters))}
UserNames(config) ==
  {UnwrapOrDefault(config.users)[i].name : i \in 1..Len(UnwrapOrDefault(config.users))}

\* merge.rs:132-146: the error is returned only inside `if let Some(contexts)`.
CurrentContextMissing(config) ==
  /\ config.current_context # ""
  /\ IsSome(config.contexts)
  /\ config.current_context \notin ContextNames(config)

Warning(ctx, kind, missing) == [context |-> ctx, kind |-> kind, missing |-> missing]

\* Only the cluster reference of a context is looked up.
ClusterWarningsOnly(ctx, config) ==
  IF ctx.context.cluster \notin ClusterNames(config)
  THEN <<Warning(ctx.name, "cluster", ctx.context.cluster)>>
  ELSE <<>>

\* merge.rs:161-172: the warnings of one context, cluster first.
WarningsOf(ctx, config) ==
  (IF ctx.context.cluster \notin ClusterNames(config)
   THEN <<Warning(ctx.name, "cluster", ctx.context.cluster)>>
   ELSE <<>>)
  \o
  (IF ctx.context.user \notin UserNames(config)
   THEN <<Warning(ctx.name, "user", ctx.context.user)>>
   ELSE <<>>)

RECURSIVE WarningsFrom(_, _)
WarningsFrom(contexts, config) ==
  IF contexts = <<>> THEN <<>>
  ELSE WarningsOf(Head(contexts), config) \o WarningsFrom(Tail(contexts), config)

\* merge.rs:148-174
ContextWarnings(config) == WarningsFrom(UnwrapOrDefault(config.contexts), config)

---------------------------------------------------------------------------
\* serde_yml::to_string (main.rs:170) with the skip_serializing_if rules of
\* config.rs:82-91: a None collection, an empty current-context and an empty
\* preferences map are not written.

SerializeNamedCluster(r) ==
  [name |-> r.name, cluster |-> [r.cluster EXCEPT !.server = Some(r.cluster.server)]]

\* The orders a std::collections::HashMap can be iterated in: the hasher of a
\* map is seeded at random (RandomState), so every enumeration of its entries
\* is an order a run can see.
Iterations(map) ==
  {s \in [1..Cardinality(map) -> map] :
     \A i, j \in 1..Cardinality(map) : i # j => s[i] # s[j]}

\* One iteration order for each of a sequence of maps.
IterationsOfAll(maps) ==
  {f \in [1..Len(maps) -> UNION {Iterations(maps[i]) : i \in 1..Len(maps)}] :
     \A i \in 1..Len(maps) : f[i] \in Iterations(maps[i])}

\* The iteration orders of the HashMaps of a KubeConfig: `preferences`
\* (config.rs:90-91) and the flattened `other` of every record
\* (config.rs:22-23, 38-39, 67-68).
HashOrders(config) ==
  LET cl == UnwrapOrDefault(config.clusters)
      cx == UnwrapOrDefault(config.contexts)
      us == UnwrapOrDefault(config.users)
  IN [preferences : Iterations(config.preferences),
      clusters : IterationsOfAll([i \in 1..Len(cl) |-> cl[i].cluster.other]),
      contexts : IterationsOfAll([i \in 1..Len(cx) |-> cx[i].context.other]),
      users : IterationsOfAll([i \in 1..Len(us) |-> us[i].user.other])]

\* The text written for `config` when its maps iterate in the orders `emitted`:
\* the content, and the order the entries of every map are written in.
to_string(config, emitted) ==
  LET cl == UnwrapOrDefault(config.clusters)
  IN [text |-> "yaml",
      emitted |-> emitted,
      keys |-> {"apiVersion", "kind"}
               \cup (IF IsSome(config.clusters) THEN {"clusters"} ELSE {})
               \cup (IF IsSome(config.contexts) THEN {"contexts"} ELSE {})
               \cup (IF IsSome(config.users) THEN {"users"} ELSE {})
               \cup (IF config.current_context # "" THEN {"current-context"} ELSE {})
               \cup (IF config.preferences # EmptyMap THEN {"preferences"} ELSE {}),
      clusters |-> [i \in 1..Len(cl) |-> SerializeNamedCluster(cl[i])],
      contexts |-> UnwrapOrDefault(config.contexts),
      users |-> UnwrapOrDefault(config.users),
      cc |-> config.current_context,
      prefs |-> config.preferences]

---------------------------------------------------------------------------
\* The inputs of a run.  A file is written item by item: an item adds a record
\* to a collection, sets current-context, sets a preference or leaves a
\* top-level key out.  Items are <<kind, name, variant>>.

EmptyYaml == Yaml(TopKeys, <<>>, <<>>, <<>>, "", EmptyMap)

WithItem(doc, it) ==
  CASE it[1] = "cluster" -> [doc EXCEPT !.clusters = Append(@, NamedCluster(it[2], it[3]))]
    [] it[1] = "context" -> [doc EXCEPT !.contexts = Append(@, NamedContext(it[2], it[3]))]
    [] it[1] = "user" -> [doc EXCEPT !.users = Append(@, NamedUser(it[2], it[3]))]
    [] it[1] = "cc" -> [doc EXCEPT !.cc = it[2]]
    [] it[1] = "pref" -> [doc EXCEPT !.prefs = MapInsert(@, it[2], it[3])]
    [] it[1] = "omit" -> [doc EXCEPT !.keys = @ \ {it[2]}]

RECURSIVE WithItems(_, _)
WithItems(doc, items) ==
  IF items = <<>> THEN doc ELSE WithItems(WithItem(doc, Head(items)), Tail(items))

YamlOf(items) ==
  LET d == WithItems(EmptyYaml, items)
  IN Yaml(d.keys, d.clusters, d.contexts, d.users, d.cc, d.prefs)

\* The weight of a file: the items it is written with, at least 1.
Weight(doc) ==
  LET n == Len(doc.clusters) + Len(doc.contexts) + Len(doc.users)
           + (IF doc.cc # "" THEN 1 ELSE 0) + Cardinality(doc.prefs)
           + (IF doc.text = "yaml" THEN Cardinality(TopKeys \ doc.keys) ELSE 0)
  IN IF n = 0 THEN 1 ELSE n

RECURSIVE TotalWeight(_)
TotalWeight(fs) == IF fs = <<>> THEN 0 ELSE Weight(Head(fs)) + TotalWeight(Tail(fs))

\* The files of weight at most w written with `items`, with the blank file,
\* the malformed one and the YAML mapping without content.
FilesUpTo(items, w) ==
  {d \in UNION {{YamlOf(s) : s \in [1..k -> items]} : k \in 1..w} : Weight(d) <= w}
  \cup (IF w >= 1 THEN {BlankFile, MalformedFile, EmptyYaml} ELSE {})

RecordItems(kind) == {<<kind, n, v>> : n \in Names, v \in Variants}

\* Runs about merging and validation: records of every category, among them
\* one name with two definitions, both current-contexts, preferences with a
\* key of two values.
CoreItems ==
  {<<"cluster", "a", 1>>, <<"cluster", "a", 2>>, <<"cluster", "b", 1>>,
   <<"context", "a", 1>>, <<"context", "a", 2>>, <<"context", "b", 1>>,
   <<"user", "a", 1>>, <<"user", "b", 2>>,
   <<"cc", "a", 0>>, <<"cc", "b", 0>>,
   <<"pref", "colors", 1>>, <<"pref", "colors", 2>>, <<"pref", "editor", 1>>}

\* Runs about the entities: every record of every category, and a
\* current-context.
EntityItems ==
  RecordItems("cluster") \cup RecordItems("context") \cup RecordItems("user")
  \cup {<<"cc", "b", 0>>}

\* Runs about parsing: every top-level key left out, a cluster without
\* server, and content of every kind.
ParseItems ==
  {<<"omit", k, 0>> : k \in TopKeys}
  \cup {<<"cluster", "a", 0>>, <<"cluster", "a", 1>>, <<"context", "a", 1>>,
        <<"user", "a", 1>>, <<"cc", "a", 0>>, <<"cc", "b", 0>>,
        <<"pref", "colors", 1>>}

---------------------------------------------------------------------------
\* The state of a run.

VARIABLES
  previous,         \* Option: the outcome of the run before this one on `files`
  files,            \* the contents of the YAML files found, in sorted order
  idx,              \* the file the loop of merge_kubeconfigs is at
  pc,               \* "scan", "loop", "parsed", "validate", "write", "done", "error"
  config,           \* Option: the KubeConfig parsed from files[idx]
  all_clusters, all_contexts, all_users,
  current_context, preferences, processed_files,
  merged,           \* Option: the KubeConfig merge_kubeconfigs built
  warnings,         \* the warnings printed by validation
  err,              \* "" or the error the run ended with
  output            \* Option: the text written to the output file

vars == <<previous, files, idx, pc, config, all_clusters, all_contexts, all_users,
          current_context, preferences, processed_files, merged, warnings,
          err, output>>

accs == <<all_clusters, all_contexts, all_users, current_context, preferences,
          processed_files>>

InitState(fs) ==
  /\ previous = None
  /\ files = fs
  /\ idx = 1
  /\ pc = "scan"
  /\ config = None
  /\ all_clusters = <<>>
  /\ all_contexts = <<>>
  /\ all_users = <<>>
  /\ current_context = ""
  /\ preferences = EmptyMap
  /\ processed_files = 0
  /\ merged = None
  /\ warnings = <<>>
  /\ err = ""
  /\ output = None

\* find_yaml_files (utils.rs:15-37, main.rs:191-214): one more YAML file of
\* the input directory; its content is drawn from the files `items` write.
FindYamlFile(items) ==
  /\ pc = "scan"
  /\ Len(files) < MaxDocs
  /\ \E d \in FilesUpTo(items, MaxWeight - TotalWeight(files)) :
       files' = Append(files, d)
  /\ UNCHANGED <<previous, idx, pc, config, accs, merged, warnings, err, output>>

\* main.rs:153-164: the scan is over and merge_kubeconfigs is called
StartMerge ==
  /\ pc = "scan" /\ files # <<>>
  /\ pc' = "loop"
  /\ UNCHANGED <<previous, files, idx, config, accs, merged, warnings, err, output>>

\* main.rs:154-156
NoYamlFiles ==
  /\ pc = "scan" /\ files = <<>>
  /\ pc' = "error" /\ err' = "NoInputError"
  /\ UNCHANGED <<previous, files, idx, config, accs, merged, warnings, output>>

\* merge.rs:21-24
SkipEmpty ==
  /\ pc = "loop" /\ idx <= Len(files)
  /\ IsBlank(files[idx])
  /\ idx' = idx + 1
  /\ UNCHANGED <<previous, files, pc, config, accs, merged, warnings, err, output>>

\* merge.rs:26-27, the error returned by `?`
ParseFail ==
  /\ pc = "loop" /\ idx <= Len(files)
  /\ ~IsBlank(files[idx])
  /\ from_str(files[idx]) = None
  /\ pc' = "error" /\ err' = "ParseError"
  /\ UNCHANGED <<previous, files, idx, config, accs, merged, warnings, output>>

\* merge.rs:26-27, the KubeConfig parsed
ParseOk ==
  /\ pc = "loop" /\ idx <= Len(files)
  /\ ~IsBlank(files[idx])
  /\ from_str(files[idx]) # None
  /\ config' = from_str(files[idx])
  /\ pc' = "parsed"
  /\ UNCHANGED <<previous, files, idx, accs, merged, warnings, err, output>>

\* merge.rs:29-50: the parsed document is folded into the accumulators
MergeFile ==
  /\ pc = "parsed"
  /\ LET cfg == Unwrap(config)
         m == merge_config_items(cfg, all_clusters, all_contexts, all_users)
     IN /\ all_clusters' = m.clusters
        /\ all_contexts' = m.contexts
        /\ all_users' = m.users
        /\ current_context' = UseCurrentContext(current_context, cfg.current_context)
        /\ preferences' = MergePreferences(preferences, cfg.preferences)
        /\ processed_files' = CountProcessed(processed_files, m.added)
  /\ config' = None
  /\ idx' = idx + 1
  /\ pc' = "loop"
  /\ UNCHANGED <<previous, files, merged, warnings, err, output>>

\* merge.rs:53-56
MergeFail ==
  /\ pc = "loop" /\ files # <<>> /\ idx > Len(files)
  /\ processed_files = 0
  /\ pc' = "error" /\ err' = "MergeError"
  /\ UNCHANGED <<previous, files, idx, config, accs, merged, warnings, output>>

\* The merged document built as soon as a file has contributed, before the
\* loop is over.
MergeDoneEarly ==
  /\ pc = "loop" /\ files # <<>>
  /\ processed_files # 0
  /\ merged' = Some(BuildMerged(all_clusters, all_contexts, all_users,
                                current_context, preferences))
  /\ pc' = "validate"
  /\ UNCHANGED <<previous, files, idx, config, accs, warnings, err, output>>

\* merge.rs:58-78
MergeDone ==
  /\ pc = "loop" /\ files # <<>> /\ idx > Len(files)
  /\ processed_files # 0
  /\ merged' = Some(BuildMerged(all_clusters, all_contexts, all_users,
                                current_context, preferences))
  /\ pc' = "validate"
  /\ UNCHANGED <<previous, files, idx, config, accs, warnings, err, output>>

\* merge.rs:132-146
ValidateFail ==
  /\ pc = "validate"
  /\ CurrentContextMissing(Unwrap(merged))
  /\ pc' = "error" /\ err' = "ValidationError"
  /\ UNCHANGED <<previous, files, idx, config, accs, merged, warnings, output>>

\* merge.rs:148-176
ValidateOk ==
  /\ pc = "validate"
  /\ ~CurrentContextMissing(Unwrap(merged))
  /\ warnings' = ContextWarnings(Unwrap(merged))
  /\ pc' = "write"
  /\ UNCHANGED <<previous, files, idx, config, accs, merged, err, output>>

\* main.rs:170-171
WriteOutput ==
  /\ pc = "write"
  /\ \E emitted \in HashOrders(Unwrap(merged)) :
       output' = Some(to_string(Unwrap(merged), emitted))
  /\ pc' = "done"
  /\ UNCHANGED <<previous, files, idx, config, accs, merged, warnings, err>>

Next ==
  \/ StartMerge
  \/ NoYamlFiles
  \/ SkipEmpty
  \/ ParseFail
  \/ ParseOk
  \/ MergeFile
  \/ MergeFail
  \/ MergeDone
  \/ ValidateFail
  \/ ValidateOk
  \/ WriteOutput

---------------------------------------------------------------------------

Init == InitState(<<>>)

Spec == Init /\ [][FindYamlFile(CoreItems) \/ Next]_vars
SpecEntities == Init /\ [][FindYamlFile(EntityItems) \/ Next]_vars
SpecParse == Init /\ [][FindYamlFile(ParseItems) \/ Next]_vars

\* main.rs:99-181 run once more on the same files: the outcome of the run that
\* ended is kept aside and main starts again on the files it found.
Rerun ==
  /\ pc \in {"done", "error"} /\ files # <<>>
  /\ previous = None
  /\ previous' = Some([err |-> err, output |-> output])
  /\ idx' = 1
  /\ pc' = "loop"
  /\ config' = None
  /\ all_clusters' = <<>>
  /\ all_contexts' = <<>>
  /\ all_users' = <<>>
  /\ current_context' = ""
  /\ preferences' = EmptyMap
  /\ processed_files' = 0
  /\ merged' = None
  /\ warnings' = <<>>
  /\ err' = ""
  /\ output' = None
  /\ UNCHANGED files

SpecRerun == Init /\ [][FindYamlFile(CoreItems) \/ Next \/ Rerun]_vars

---------------------------------------------------------------------------
\* The properties of the specification, stated on the input files.

\* A file of whitespace only.
BlankText(d) == d.text = "blank"

\* What a file gives the merge: nothing when blank, its content otherwise.
\* The collections are those written in the text, records as parsed.
DocClusters(d) == IF BlankText(d) THEN <<>> ELSE UnwrapOrDefault(Deserialized(d).clusters)
DocContexts(d) == IF BlankText(d) THEN <<>> ELSE d.contexts
DocUsers(d) == IF BlankText(d) THEN <<>> ELSE d.users
DocCurrentContext(d) == IF BlankText(d) THEN "" ELSE d.cc
DocPreferences(d) == IF BlankText(d) THEN EmptyMap ELSE d.prefs

\* The records of one category in the order the documents are traversed.
RECURSIVE ClusterTraversal(_)
ClusterTraversal(fs) ==
  IF fs = <<>> THEN <<>> ELSE DocClusters(Head(fs)) \o ClusterTraversal(Tail(fs))
RECURSIVE ContextTraversal(_)
ContextTraversal(fs) ==
  IF fs = <<>> THEN <<>> ELSE DocContexts(Head(fs)) \o ContextTraversal(Tail(fs))
RECURSIVE UserTraversal(_)
UserTraversal(fs) ==
  IF fs = <<>> THEN <<>> ELSE DocUsers(Head(fs)) \o UserTraversal(Tail(fs))

NamesOf(records) == {records[i].name : i \in 1..Len(records)}
FirstNamed(records, x) ==
  records[CHOOSE i \in 1..Len(records) :
            /\ records[i].name = x
            /\ \A j \in 1..(i - 1) : records[j].name # x]

\* `result` holds, for every name of `traversal`, exactly one record, the
\* first of that name in `traversal`, and no record of another name.
FirstWins(result, traversal) ==
  /\ NamesOf(result) = NamesOf(traversal)
  /\ \A x \in NamesOf(traversal) :
       /\ Cardinality({i \in 1..Len(result) : result[i].name = x}) = 1
       /\ \A i \in 1..Len(result) :
            result[i].name = x => result[i] = FirstNamed(traversal, x)

TwoDefinitions(traversal) ==
  \E i, j \in 1..Len(traversal) :
    i < j /\ traversal[i].name = traversal[j].name /\ traversal[i] # traversal[j]

\* C1: first occurrence wins.  In the merged document and in the text written,
\* each category holds exactly one record per name defined in the input, equal
\* in every field (the passthrough `other` included) to the first record of
\* that name in the traversal of the documents.
FirstOccurrenceWins ==
  /\ merged # None =>
       /\ FirstWins(UnwrapOrDefault(Unwrap(merged).clusters), ClusterTraversal(files))
       /\ FirstWins(UnwrapOrDefault(Unwrap(merged).contexts), ContextTraversal(files))
       /\ FirstWins(UnwrapOrDefault(Unwrap(merged).users), UserTraversal(files))
  /\ output # None =>
       /\ FirstWins(Unwrap(output).contexts, ContextTraversal(files))
       /\ FirstWins(Unwrap(output).users, UserTraversal(files))
       /\ FirstWins([i \in 1..Len(Unwrap(output).clusters) |->
                       ParseNamedCluster(Unwrap(output).clusters[i])],
                    ClusterTraversal(files))

\* A run that wrote its output from two files defining the same cluster
\* differently, the later definition carrying a passthrough field.
FirstOccurrenceWinsWitness ==
  /\ pc = "done"
  /\ Len(files) = 2
  /\ \E r1 \in Range(DocClusters(files[1])), r2 \in Range(DocClusters(files[2])) :
       r1.name = r2.name /\ r1 # r2 /\ r2.cluster.other # EmptyMap

Distinct(records) ==
  \A i, j \in 1..Len(records) : i # j => records[i].name # records[j].name

\* C2: in the merged document no two records of a category share a name.
NamesUnique ==
  merged # None =>
    /\ Distinct(UnwrapOrDefault(Unwrap(merged).clusters))
    /\ Distinct(UnwrapOrDefault(Unwrap(merged).contexts))
    /\ Distinct(UnwrapOrDefault(Unwrap(merged).users))

\* A merged document built from a single file that repeats a name within a
\* category, with two different definitions.
NamesUniqueWitness ==
  /\ merged # None
  /\ \E i \in 1..Len(files) :
       \/ TwoDefinitions(DocClusters(files[i]))
       \/ TwoDefinitions(DocContexts(files[i]))
       \/ TwoDefinitions(DocUsers(files[i]))
  /\ Len(files) = 1

\* The files the loop has folded: all of them once it is over.
Folded == IF pc = "scan" THEN <<>> ELSE SubSeq(files, 1, idx - 1)

\* merge_kubeconfigs went through every file: it returned the merged document
\* or the MergeError.
LoopOver == merged # None \/ err = "MergeError"

RECURSIVE PreferenceKeys(_)
PreferenceKeys(fs) ==
  IF fs = <<>> THEN {} ELSE MapKeys(DocPreferences(Head(fs))) \cup PreferenceKeys(Tail(fs))

LastDefining(fs, k) ==
  fs[CHOOSE i \in 1..Len(fs) :
       /\ k \in MapKeys(DocPreferences(fs[i]))
       /\ \A j \in (i + 1)..Len(fs) : k \notin MapKeys(DocPreferences(fs[j]))]

LastWins(prefs, fs) ==
  /\ MapKeys(prefs) = PreferenceKeys(fs)
  /\ Cardinality(prefs) = Cardinality(MapKeys(prefs))
  /\ \A k \in PreferenceKeys(fs) :
       MapGet(prefs, k) = MapGet(DocPreferences(LastDefining(fs, k)), k)

NoRecords(d) == DocClusters(d) = <<>> /\ DocContexts(d) = <<>> /\ DocUsers(d) = <<>>

\* C3: preferences are merged key by key, the last document wins.  The keys of
\* the merged preferences are the union of the keys of the documents, each
\* with the value of the last document defining it; so it is of the
\* accumulator at every step of the fold.
PreferencesLastWins ==
  /\ LastWins(preferences, Folded)
  /\ merged # None => LastWins(Unwrap(merged).preferences, files)

\* A merged document whose second file, which holds no record at all, gave a
\* key another value than the first.
PreferencesLastWinsWitness ==
  /\ merged # None
  /\ Len(files) = 2
  /\ NoRecords(files[2])
  /\ \E k \in MapKeys(DocPreferences(files[1])) \cap MapKeys(DocPreferences(files[2])) :
       MapGet(DocPreferences(files[1]), k) # MapGet(DocPreferences(files[2]), k)

RECURSIVE FirstCurrentContext(_)
FirstCurrentContext(fs) ==
  IF fs = <<>> THEN ""
  ELSE IF DocCurrentContext(Head(fs)) # "" THEN DocCurrentContext(Head(fs))
  ELSE FirstCurrentContext(Tail(fs))

\* C4: the merged current-context is that of the first document with a
\* non-empty one, and empty when there is none; at every step of the fold the
\* accumulator is that of the first such document folded, so a value set is
\* never replaced.
CurrentContextFirstWins ==
  /\ current_context = FirstCurrentContext(Folded)
  /\ merged # None => Unwrap(merged).current_context = FirstCurrentContext(files)

\* A merged document whose current-context was set by a file without records,
\* a later file naming another one.
CurrentContextFirstWinsWitness ==
  /\ merged # None
  /\ Len(files) = 2
  /\ NoRecords(files[1])
  /\ DocCurrentContext(files[1]) # ""
  /\ DocCurrentContext(files[2]) # ""
  /\ DocCurrentContext(files[2]) # DocCurrentContext(files[1])

\* C5 as stated: merge fails with MergeError exactly when no document
\* contributed an entity, a current-context or a preference key.
MergeErrorIffNothingContributed ==
  LoopOver =>
    (err = "MergeError" <=>
       \A i \in 1..Len(files) :
         /\ NoRecords(files[i])
         /\ DocCurrentContext(files[i]) = ""
         /\ DocPreferences(files[i]) = EmptyMap)

\* C5, amended: merge fails with MergeError exactly when no document
\* contributed an entity; a current-context or preference keys alone do not
\* prevent it.
MergeErrorIffNoEntity ==
  LoopOver => (err = "MergeError" <=> \A i \in 1..Len(files) : NoRecords(files[i]))

\* A MergeError although a document set the current-context and another a
\* preference.
MergeErrorIffNoEntityWitness ==
  /\ err = "MergeError"
  /\ \E i \in 1..Len(files) : DocCurrentContext(files[i]) # ""
  /\ \E i \in 1..Len(files) : DocPreferences(files[i]) # EmptyMap

\* Validation ran on the merged document: it returned Ok or the error.
Validated == pc \in {"write", "done"} \/ err = "ValidationError"

\* C6 as stated: validation fails if and only if the merged current-context
\* is non-empty and no merged context has that name, whatever the number of
\* merged contexts.
ValidationErrorIffCurrentContextUnresolved ==
  Validated =>
    (err = "ValidationError" <=>
       /\ Unwrap(merged).current_context # ""
       /\ \A i \in 1..Len(all_contexts) :
            all_contexts[i].name # Unwrap(merged).current_context)

Count(ws, w) == Cardinality({i \in 1..Len(ws) : ws[i] = w})

\* For every merged context, one warning for its cluster reference when no
\* merged cluster has that name, none when one has; the same for its user
\* reference; and no other warning.
DanglingWarned ==
  LET ctxs == UnwrapOrDefault(Unwrap(merged).contexts)
      cls == NamesOf(UnwrapOrDefault(Unwrap(merged).clusters))
      uss == NamesOf(UnwrapOrDefault(Unwrap(merged).users))
  IN /\ \A i \in 1..Len(ctxs) :
          /\ Count(warnings, Warning(ctxs[i].name, "cluster", ctxs[i].context.cluster))
               = IF ctxs[i].context.cluster \in cls THEN 0 ELSE 1
          /\ Count(warnings, Warning(ctxs[i].name, "user", ctxs[i].context.user))
               = IF ctxs[i].context.user \in uss THEN 0 ELSE 1
     /\ \A j \in 1..Len(warnings) :
          \E i \in 1..Len(ctxs) :
            \/ warnings[j] = Warning(ctxs[i].name, "cluster", ctxs[i].context.cluster)
            \/ warnings[j] = Warning(ctxs[i].name, "user", ctxs[i].context.user)

\* C7 as stated: whenever validation ran, the dangling references of every
\* merged context were warned of.
DanglingReferencesWarned == Validated => DanglingWarned

\* Validation fails on the current-context alone: it is set, some context was
\* merged and none has that name.  No reference of a context is looked at.
FailsOnCurrentContext ==
  LET ctxs == UnwrapOrDefault(Unwrap(merged).contexts)
  IN /\ Unwrap(merged).current_context # ""
     /\ ctxs # <<>>
     /\ \A i \in 1..Len(ctxs) : ctxs[i].name # Unwrap(merged).current_context

\* C7, amended: dangling references are warnings, never errors.  Whenever
\* validation ran, it failed exactly when the current-context names none of
\* the merged contexts, whatever references dangle; when it succeeded, the
\* dangling references of every merged context were warned of, one warning
\* each, the resolved ones were not, and the run went on to write its output;
\* when it failed, it emitted no warning and wrote nothing.
DanglingReferencesWarnedOnSuccess ==
  /\ Validated => (err = "ValidationError" <=> FailsOnCurrentContext)
  /\ Validated /\ ~FailsOnCurrentContext =>
       DanglingWarned /\ err = "" /\ pc \in {"write", "done"}
  /\ Validated /\ FailsOnCurrentContext => warnings = <<>> /\ output = None
  /\ pc = "done" => output # None

\* A run that wrote its output with a context whose cluster reference
\* resolves and whose user reference does not: one warning.
DanglingReferencesWarnedOnSuccessWitness ==
  /\ pc = "done"
  /\ \E i \in 1..Len(all_contexts) :
       /\ all_contexts[i].context.cluster \in NamesOf(all_clusters)
       /\ all_contexts[i].context.user \notin NamesOf(all_users)
  /\ Len(warnings) = 1

\* A blank file, or a YAML mapping that parses and holds nothing.
BlankOrEmpty(d) ==
  \/ BlankText(d)
  \/ /\ d.text = "yaml" /\ RequiredKeys \subseteq d.keys
     /\ d.clusters = <<>> /\ d.contexts = <<>> /\ d.users = <<>>
     /\ d.cc = "" /\ d.prefs = EmptyMap

\* A document that parses and holds something: a record, a current-context
\* or a preference.
NonEmptyDocument(d) ==
  /\ d.text = "yaml" /\ RequiredKeys \subseteq d.keys /\ RecordsComplete(d)
  /\ ~(NoRecords(d) /\ DocCurrentContext(d) = "" /\ DocPreferences(d) = EmptyMap)

\* The merged document is d: the same records in the same order, the same
\* current-context and the same preferences.
MergedIs(d) ==
  /\ merged # None
  /\ UnwrapOrDefault(Unwrap(merged).clusters) = DocClusters(d)
  /\ UnwrapOrDefault(Unwrap(merged).contexts) = DocContexts(d)
  /\ UnwrapOrDefault(Unwrap(merged).users) = DocUsers(d)
  /\ Unwrap(merged).current_context = DocCurrentContext(d)
  /\ Unwrap(merged).preferences = DocPreferences(d)

\* The loop of merge_kubeconfigs is over, however the run ended.
AfterLoop == pc \in {"validate", "write", "done", "error"}

\* C8 as stated: the merge of one non-empty document D and any number of
\* blank or empty documents succeeds and returns D unchanged.
IdentityLaw ==
  \A i \in 1..Len(files) :
    (/\ AfterLoop
     /\ NonEmptyDocument(files[i])
     /\ \A j \in 1..Len(files) : j # i => BlankOrEmpty(files[j]))
    => MergedIs(files[i])

\* C8, amended: when D holds at least one record and repeats no name within a
\* category, the merge of D and any number of blank or empty documents builds
\* D unchanged, without MergeError.
IdentityLawOfEntities ==
  \A i \in 1..Len(files) :
    (/\ AfterLoop
     /\ NonEmptyDocument(files[i])
     /\ ~NoRecords(files[i])
     /\ Distinct(DocClusters(files[i]))
     /\ Distinct(DocContexts(files[i]))
     /\ Distinct(DocUsers(files[i]))
     /\ \A j \in 1..Len(files) : j # i => BlankOrEmpty(files[j]))
    => MergedIs(files[i]) /\ err # "MergeError"

\* The output written for a blank file followed by a document with a record
\* and a current-context.
IdentityLawOfEntitiesWitness ==
  /\ pc = "done"
  /\ Len(files) = 2
  /\ BlankText(files[1])
  /\ ~NoRecords(files[2])
  /\ DocCurrentContext(files[2]) # ""

\* A file that is not blank and does not deserialize to a KubeConfig.
FailsToParse(d) ==
  /\ d.text # "blank"
  /\ ~(d.text = "yaml" /\ RequiredKeys \subseteq d.keys /\ RecordsComplete(d))

FirstFailing == CHOOSE i \in 1..Len(files) :
                  FailsToParse(files[i]) /\ \A j \in 1..(i - 1) : ~FailsToParse(files[j])

\* C9: abort on the first parse error.  When a file of the run fails to
\* parse, the loop never goes past the first such file, no merged document
\* is built, nothing is validated or written, and the only way the run ends
\* is the parse error at that file.
AbortOnFirstParseError ==
  (pc # "scan" /\ \E i \in 1..Len(files) : FailsToParse(files[i])) =>
    /\ idx <= FirstFailing
    /\ pc \in {"loop", "parsed", "error"}
    /\ merged = None
    /\ output = None
    /\ warnings = <<>>
    /\ pc = "error" => err = "ParseError" /\ idx = FirstFailing

\* The run ended with the parse error of its second file, after the records
\* of the first were folded.
AbortOnFirstParseErrorWitness ==
  /\ err = "ParseError"
  /\ idx = 2
  /\ all_clusters # <<>>
  /\ output = None

\* A YAML mapping with apiVersion and kind whose records are complete.
WellFormed(d) ==
  /\ d.text = "yaml"
  /\ {"apiVersion", "kind"} \subseteq d.keys
  /\ RecordsComplete(d)

\* C10 as stated: a well-formed document that omits current-context,
\* preferences or a collection parses: the run never ends with the parse
\* error of such a document.
OptionalFieldsParse ==
  err = "ParseError" => ~WellFormed(files[idx])

---------------------------------------------------------------------------
\* Two runs on the same files.

Ended == pc \in {"done", "error"}
Outcome == [err |-> err, output |-> output]

\* C11: Determinism.  Two runs of merge and serialization on the same ordered
\* files have the same outcome, the same error or the same written text, the
\* order of the preference keys and of the passthrough keys included: when the
\* second run has ended, its outcome is the outcome of the first.
Deterministic == (previous # None /\ Ended) => Outcome = Unwrap(previous)

---------------------------------------------------------------------------
\* The steps of a run: parsing a document, folding it into the accumulators,
\* validating the merged document.

ParseStep == pc = "loop" /\ (pc' = "parsed" \/ err' = "ParseError")
FoldStep == pc = "parsed" /\ pc' = "loop"
ValidateStep == pc = "validate" /\ pc' # "validate"

\* A document has been folded / validation has started.
FoldedSome == pc # "scan" /\ \E j \in 1..(idx - 1) : ~BlankText(files[j])
ValidationStarted == Validated

\* The accumulators hold the fold of the documents fs.
AccumulatorsFold(fs) ==
  /\ FirstWins(all_clusters, ClusterTraversal(fs))
  /\ FirstWins(all_contexts, ContextTraversal(fs))
  /\ FirstWins(all_users, UserTraversal(fs))

\* C12 as stated: phase ordering.  Parsing of all documents completes before
\* the first document is folded, so no parse step occurs after a fold step;
\* validation starts only after the last document has been folded, and no
\* parse or fold step occurs after validation has started.
PhaseOrdering ==
  [][/\ FoldedSome => ~ParseStep
     /\ ValidateStep => Folded = files /\ config = None
     /\ ValidationStarted => ~ParseStep /\ ~FoldStep]_vars

\* C12, amended: parsing and folding alternate document by document.  A
\* document is parsed when every document before it has been folded, the step
\* after a successful parse folds that very document, validation starts only
\* when the last document has been folded, and no parse or fold step occurs
\* after validation has started.
PhaseOrderingPerDocument ==
  [][/\ ParseStep => idx <= Len(files) /\ config = None /\ AccumulatorsFold(Folded)
     /\ pc = "parsed" => FoldStep
     /\ FoldStep => /\ config = Some(Deserialized(files[idx]))
                    /\ idx' = idx + 1
                    /\ AccumulatorsFold(Folded)'
     /\ ValidateStep => Folded = files /\ config = None /\ AccumulatorsFold(files)
     /\ ValidationStarted => ~ParseStep /\ ~FoldStep]_vars

\* A run that validated the merge of two documents with records: the second
\* was parsed after the first had been folded.
PhaseOrderingPerDocumentWitness ==
  /\ ValidationStarted
  /\ Len(files) = 2
  /\ \A i \in 1..2 : ~BlankText(files[i]) /\ ~NoRecords(files[i])

---------------------------------------------------------------------------
\* The growth of the accumulators.

IsPrefix(s, t) == Len(s) <= Len(t) /\ SubSeq(t, 1, Len(s)) = s
Suffix(s, t) == SubSeq(t, Len(s) + 1, Len(t))
NameSeq(records) == [i \in 1..Len(records) |-> records[i].name]

\* The records of `records` whose name is not in `seen` and not carried by an
\* earlier record of `records`, in the order of `records`.
RECURSIVE FirstOccurrences(_, _)
FirstOccurrences(records, seen) ==
  IF records = <<>> THEN <<>>
  ELSE IF Head(records).name \in seen
       THEN FirstOccurrences(Tail(records), seen)
       ELSE <<Head(records)>>
            \o FirstOccurrences(Tail(records), seen \cup {Head(records).name})

\* A fold step appends to `acc`, in their order, the records of the document
\* whose name `acc` does not hold yet, and nothing else.
AppendsNew(acc, accAfter, records) ==
  /\ IsPrefix(acc, accAfter)
  /\ Suffix(acc, accAfter) = FirstOccurrences(records, NamesOf(acc))
  /\ NamesOf(records) \subseteq NamesOf(acc) => accAfter = acc

\* C13: the accumulators only grow by appending.  Every step leaves each of
\* the three accumulators a prefix of what it is after the step; a fold step
\* appends exactly the records whose name is not held yet and leaves an
\* accumulator unchanged when every name of the document is already present;
\* and the merged sequence of each category lists the names in the order of
\* their first occurrence in the traversal of the input.
AccumulatorsAppendOnly ==
  /\ [][/\ IsPrefix(all_clusters, all_clusters')
        /\ IsPrefix(all_contexts, all_contexts')
        /\ IsPrefix(all_users, all_users')
        /\ FoldStep =>
             /\ AppendsNew(all_clusters, all_clusters', DocClusters(files[idx]))
             /\ AppendsNew(all_contexts, all_contexts', DocContexts(files[idx]))
             /\ AppendsNew(all_users, all_users', DocUsers(files[idx]))]_vars
  /\ [](merged # None =>
         /\ NameSeq(UnwrapOrDefault(Unwrap(merged).clusters))
              = NameSeq(FirstOccurrences(ClusterTraversal(files), {}))
         /\ NameSeq(UnwrapOrDefault(Unwrap(merged).contexts))
              = NameSeq(FirstOccurrences(ContextTraversal(files), {}))
         /\ NameSeq(UnwrapOrDefault(Unwrap(merged).users))
              = NameSeq(FirstOccurrences(UserTraversal(files), {})))

\* The second of two documents has been folded: it defined again, differently,
\* a cluster of the first, whose record is kept in place, and a cluster of a
\* new name, appended after it.
AccumulatorsAppendOnlyWitness ==
  /\ pc = "loop" /\ idx = 3
  /\ Len(DocClusters(files[1])) = 1
  /\ Len(DocClusters(files[2])) = 2
  /\ DocClusters(files[2])[1].name = DocClusters(files[1])[1].name
  /\ DocClusters(files[2])[1] # DocClusters(files[1])[1]
  /\ DocClusters(files[2])[2].name # DocClusters(files[1])[1].name
  /\ all_clusters = <<DocClusters(files[1])[1], DocClusters(files[2])[2]>>

============================================================================
